---- MODULE Spec2Model ----
(***************************************************************************)
(* Product catalogue: the REST backend's product routes                    *)
(* (backend/routes/products.js) over the product collection, and the       *)
(* client's product page (ProductPage, ProductFilters, product-service).   *)
(*                                                                         *)
(* A backend request is handled by an async function: every `await` of a  *)
(* store operation ends one step, so the steps of the requests in flight   *)
(* interleave exactly where the code awaits.                               *)
(***************************************************************************)
EXTENDS Integers, Sequences, FiniteSets, Bags, TLC

VARIABLES
    collection,   \* backend: the stored Product documents (a set of records)
    nextId,       \* backend: the next ObjectId `new Product` generates
    now,          \* Date.now(), shared by backend and tokens
    reqs,         \* backend: the bag of requests whose handlers are awaiting
    resp,         \* backend: what the last step sent (NoResp: nothing)
    arrivals,     \* backend: requests received so far
    products,          \* ProductPage: the loaded product list
    filteredProducts,  \* ProductPage: the view derived from it
    categories,        \* ProductPage: the loaded categories
    filters,           \* ProductPage: the filter criteria
    localFilters,      \* ProductFilters: its own `filters` state
    priceRange,        \* ProductFilters: the price slider's thumbs
    isLoading,         \* ProductPage: loadData has not finished
    effectPending,     \* ProductPage: the filter effect is due
    store,             \* product service: the mockProducts array as it is now
    aliased,           \* ProductPage: `products` is the service's array itself
    isFormOpen,        \* ProductPage
    currentProduct,    \* ProductPage: the product being edited, None to create
    isSubmitting,      \* ProductPage
    isDeleteDialogOpen,  \* ProductPage
    productToDelete,   \* ProductPage
    calls,             \* product service: the calls whose timers are running
    started,           \* product service: create/update/delete calls so far
    toast,             \* the notification the last step raised
    authUser,          \* AuthProvider: its `user`
    token,             \* AuthProvider
    authIsLoading,     \* AuthProvider: its `isLoading`
    localStorage,      \* the browser's storage: jwt_token and user
    returned,          \* what the last login or signup call returned
    loggedOut          \* the tokens logout has dropped so far

backendVars == <<collection, nextId, now, reqs, resp, arrivals>>
filterVars == <<products, filteredProducts, categories, filters, localFilters,
                priceRange, isLoading, effectPending>>
crudVars == <<store, aliased, isFormOpen, currentProduct, isSubmitting,
              isDeleteDialogOpen, productToDelete, calls, started>>
authVars == <<authUser, token, authIsLoading, localStorage, returned, loggedOut>>
clientVars == <<filterVars, crudVars, toast, authVars>>
vars == <<backendVars, clientVars>>

-----------------------------------------------------------------------------
(* Bounds *)

MaxProducts == 3
MaxTime == 1
MaxRequests == 2
MaxInFlight == 2
MaxCalls == 2

-----------------------------------------------------------------------------
(* Backend: values *)

Users == {"u1", "u2"}
NoUser == "none"
ObjectIds == 1..MaxProducts
\* req.params.id: a well-formed ObjectId, or 0 for a string that is none
ReqIds == 0..MaxProducts
IsObjectId(id) == id \in ObjectIds

Null == [null |-> TRUE]

BodyA == [name |-> "n1", description |-> "d1", price |-> 10,
          imageUrl |-> "i1", category |-> "c1", inStock |-> TRUE]
BodyB == [name |-> "n2", description |-> "d2", price |-> 20,
          imageUrl |-> "i2", category |-> "c2", inStock |-> FALSE]
Bodies == {BodyA, BodyB}

Routes == {"list", "get", "mine", "create", "put", "delete"}

\* A bearer token as the request presents it.
ExpTimes == {1, MaxTime + 1}
Tokens ==
    {[kind |-> "missing", user |-> NoUser, exp |-> 0],
     [kind |-> "malformed", user |-> NoUser, exp |-> 0],
     [kind |-> "badsig", user |-> "u1", exp |-> MaxTime + 1]}
    \cup {[kind |-> "signed", user |-> u, exp |-> e] : u \in Users, e \in ExpTimes}

\* verifyToken: why the token is refused, or "ok".
VerifyToken(tok, t) ==
    IF tok.kind # "signed" THEN tok.kind
    ELSE IF t >= tok.exp THEN "expired"
    ELSE "ok"

\* router.use(verifyToken) precedes every route of the router.
GuardedListOpen(route) == route # "list"
Guarded(route) == TRUE

\* res.status(status).json({message, product, products})
Json(status, message, product, list) ==
    [status |-> status, message |-> message, product |-> product,
     products |-> list]

\* What the last step sent: the route and verdict of its request, the status of
\* the first response, how many responses, whether the collection changed.
NoResp ==
    [route |-> "none", auth |-> "none", status |-> 0, n |-> 0, changed |-> FALSE]

-----------------------------------------------------------------------------
(* Backend: the store's operations *)

\* Product.findById(id): the document or null
FindById(coll, id) ==
    IF \E p \in coll : p.id = id
    THEN CHOOSE p \in coll : p.id = id
    ELSE Null

\* new Product({...body, createdBy}): _id generated, both timestamps defaulted
NewProductNoOwner(body, user, id, t) ==
    [id |-> id, name |-> body.name, description |-> body.description,
     price |-> body.price, imageUrl |-> body.imageUrl,
     category |-> body.category, inStock |-> body.inStock,
     createdBy |-> NoUser, createdAt |-> t, updatedAt |-> t]
NewProductNoImage(body, user, id, t) ==
    [id |-> id, name |-> body.name, description |-> body.description,
     price |-> body.price, imageUrl |-> "",
     category |-> body.category, inStock |-> body.inStock,
     createdBy |-> user, createdAt |-> t, updatedAt |-> t]
NewProduct(body, user, id, t) ==
    [id |-> id, name |-> body.name, description |-> body.description,
     price |-> body.price, imageUrl |-> body.imageUrl,
     category |-> body.category, inStock |-> body.inStock,
     createdBy |-> user, createdAt |-> t, updatedAt |-> t]

\* The update document of PUT applied to a stored document.
ApplyUpdatePartial(p, body, t) ==
    [p EXCEPT !.price = body.price, !.imageUrl = body.imageUrl,
              !.category = body.category, !.inStock = body.inStock,
              !.updatedAt = t]
ApplyUpdate(p, body, t) ==
    [p EXCEPT !.name = body.name, !.description = body.description,
              !.price = body.price, !.imageUrl = body.imageUrl,
              !.category = body.category, !.inStock = body.inStock,
              !.updatedAt = t]

\* Product.findByIdAndUpdate(id, update, {new: true}): no upsert; the updated
\* document, or null when no document has the id.
FindByIdAndUpdateUpsert(coll, id, body, t) ==
    LET old == FindById(coll, id)
        new == NewProduct(body, NoUser, id, t)
    IN IF old = Null
       THEN [coll |-> coll \cup {new}, doc |-> new]
       ELSE [coll |-> (coll \ {old}) \cup {ApplyUpdate(old, body, t)},
             doc |-> ApplyUpdate(old, body, t)]
FindByIdAndUpdate(coll, id, body, t) ==
    LET old == FindById(coll, id)
    IN IF old = Null
       THEN [coll |-> coll, doc |-> Null]
       ELSE [coll |-> (coll \ {old}) \cup {ApplyUpdate(old, body, t)},
             doc |-> ApplyUpdate(old, body, t)]

\* product.deleteOne()
DeleteOne(coll, id) == {p \in coll : p.id # id}

\* Product.find(...).sort({createdAt: -1}): every order the sort may return
\* (documents with equal keys come in whatever order the store yields).
RECURSIVE SortAsc(_)
SortAsc(S) ==
    IF S = {} THEN {<<>>}
    ELSE LET low == {p \in S : \A q \in S : p.createdAt <= q.createdAt}
         IN UNION {{<<p>> \o rest : rest \in SortAsc(S \ {p})} : p \in low}
RECURSIVE SortDesc(_)
SortDesc(S) ==
    IF S = {} THEN {<<>>}
    ELSE LET top == {p \in S : \A q \in S : q.createdAt <= p.createdAt}
         IN UNION {{<<p>> \o rest : rest \in SortDesc(S \ {p})} : p \in top}

\* find({createdBy: req.user.id})
MineAll(coll, user) == coll
Mine(coll, user) == {p \in coll : p.createdBy = user}

\* The ownership test of PUT and DELETE.
IsOwnerAnyone(p, user) == TRUE
IsOwner(p, user) == p.createdBy = user

\* The catch block of the id routes: a CastError (kind 'ObjectId') is answered
\* 404 and returns; anything else is answered 500.
CatchNoCast(kind) == <<Json(500, "Server error", Null, <<>>)>>
CatchNoReturn(kind) ==
    IF kind = "ObjectId"
    THEN <<Json(404, "Product not found", Null, <<>>)>>
    ELSE <<Json(404, "Product not found", Null, <<>>),
           Json(500, "Server error", Null, <<>>)>>
Catch(kind) ==
    IF kind = "ObjectId"
    THEN <<Json(404, "Product not found", Null, <<>>)>>
    ELSE <<Json(500, "Server error", Null, <<>>)>>

\* The catch block of the routes without an id.
CatchPlain(kind) == <<Json(500, "Server error", Null, <<>>)>>

-----------------------------------------------------------------------------
(* Backend: what each handler step sends, given the request and the store *)

\* GET / : find().sort({createdAt: -1}), one result per order of the sort
ListAllSends(r, coll) ==
    {<<Json(200, "", Null, res)>> : res \in SortDesc(coll)}

\* GET /user/me
ListMineSends(r, coll) ==
    {<<Json(200, "", Null, res)>> : res \in SortDesc(Mine(coll, r.user))}

\* GET /:id
GetByIdSendsOwnerOnly(r, coll) ==
    IF ~IsObjectId(r.id) THEN Catch("ObjectId")
    ELSE IF FindById(coll, r.id) = Null
    THEN <<Json(404, "Product not found", Null, <<>>)>>
    ELSE IF ~IsOwner(FindById(coll, r.id), r.user)
    THEN <<Json(403, "Not authorized", Null, <<>>)>>
    ELSE <<Json(200, "", FindById(coll, r.id), <<>>)>>
GetByIdSends(r, coll) ==
    IF ~IsObjectId(r.id) THEN Catch("ObjectId")
    ELSE IF FindById(coll, r.id) = Null
    THEN <<Json(404, "Product not found", Null, <<>>)>>
    ELSE <<Json(200, "", FindById(coll, r.id), <<>>)>>

\* POST / after save
CreateSaveSends(r, coll) ==
    <<Json(201, "Product created successfully", r.doc, <<>>)>>

\* PUT /:id after findById: nothing is sent when the handler goes on to write
PutReadSends(r, coll) ==
    IF ~IsObjectId(r.id) THEN Catch("ObjectId")
    ELSE IF FindById(coll, r.id) = Null
    THEN <<Json(404, "Product not found", Null, <<>>)>>
    ELSE IF ~IsOwner(FindById(coll, r.id), r.user)
    THEN <<Json(403, "Not authorized to update this product", Null, <<>>)>>
    ELSE <<>>

\* PUT /:id after findByIdAndUpdate
PutWriteSends(r, coll) ==
    <<Json(200, "Product updated successfully",
           FindByIdAndUpdate(coll, r.id, r.body, r.ts).doc, <<>>)>>

\* DELETE /:id after findById
DelReadSends(r, coll) ==
    IF ~IsObjectId(r.id) THEN Catch("ObjectId")
    ELSE IF FindById(coll, r.id) = Null
    THEN <<Json(404, "Product not found", Null, <<>>)>>
    ELSE IF ~IsOwner(FindById(coll, r.id), r.user)
    THEN <<Json(403, "Not authorized to delete this product", Null, <<>>)>>
    ELSE <<>>

\* DELETE /:id after deleteOne
DelRemoveSends(r, coll) ==
    <<Json(200, "Product deleted successfully", Null, <<>>)>>

\* The awaited store operation rejected with an internal error.
StoreFailSends(r) ==
    IF r.route \in {"get", "put", "delete"}
    THEN Catch("internal") ELSE CatchPlain("internal")

-----------------------------------------------------------------------------
(* Backend: initial state and actions *)

\* The collection persists across restarts of the server: it starts with the
\* documents stored by earlier runs, and ObjectIds are never reused.
Seeds ==
    {NewProduct(BodyA, "u1", 1, 0), NewProduct(BodyB, "u2", 2, 0)}

BackendInit ==
    /\ collection = Seeds
    /\ nextId = Cardinality(Seeds) + 1
    /\ now = 0
    /\ reqs = EmptyBag
    /\ resp = NoResp
    /\ arrivals = 0

\* The pc a route's handler stops at after its synchronous prefix.
FirstAwait(route) ==
    CASE route = "list" -> "find"
      [] route = "get" -> "findById"
      [] route = "mine" -> "mine"
      [] route = "create" -> "save"
      [] route = "put" -> "putRead"
      [] route = "delete" -> "delRead"

\* What a request of the route carries: req.params.id, req.body.
\* (the ids no document ever had behave alike: one of them is enough)
IdsOf(route) ==
    IF route \in {"get", "put", "delete"} THEN {i \in ReqIds : i <= nextId} ELSE {0}
BodiesOf(route) == IF route \in {"create", "put"} THEN Bodies ELSE {Null}

\* The requests in flight.
Active == BagToSet(reqs)

\* The step of request r sent `sent` (a sequence of responses) and left the
\* collection as coll2; the handler has returned.
Finish(r, sent, coll2) ==
    /\ collection' = coll2
    /\ reqs' = reqs (-) SetToBag({r})
    /\ resp' = [route |-> r.route, auth |-> "ok",
                status |-> IF sent = <<>> THEN 0 ELSE sent[1].status,
                n |-> Len(sent), changed |-> coll2 # collection]

\* A request arrives: the middleware runs, then the handler up to its first
\* await.  POST builds the document (id and timestamps) before awaiting save.
Arrive(route, tok, id, body) ==
    /\ arrivals < MaxRequests
    /\ BagCardinality(reqs) < MaxInFlight
    /\ route = "create" => nextId <= MaxProducts
    /\ arrivals' = arrivals + 1
    /\ LET verdict == VerifyToken(tok, now)
       IN IF Guarded(route) /\ verdict # "ok"
          THEN /\ resp' = [route |-> "none", auth |-> verdict, status |-> 401,
                           n |-> 1, changed |-> FALSE]
               /\ UNCHANGED <<reqs, nextId>>
          ELSE LET user == IF verdict = "ok" THEN tok.user ELSE NoUser
               IN /\ reqs' = reqs (+) SetToBag({
                        [pc |-> FirstAwait(route), route |-> route, user |-> user,
                         id |-> id, body |-> body, ts |-> 0,
                         doc |-> IF route = "create"
                                 THEN NewProduct(body, user, nextId, now)
                                 ELSE Null]})
                  /\ nextId' = IF route = "create" THEN nextId + 1 ELSE nextId
                  /\ resp' = NoResp
    /\ UNCHANGED <<collection, now>>
    /\ UNCHANGED clientVars

ListAll(r) ==
    /\ r.pc = "find"
    /\ \E sent \in ListAllSends(r, collection) : Finish(r, sent, collection)
    /\ UNCHANGED <<nextId, now, arrivals>>
    /\ UNCHANGED clientVars

ListMine(r) ==
    /\ r.pc = "mine"
    /\ \E sent \in ListMineSends(r, collection) : Finish(r, sent, collection)
    /\ UNCHANGED <<nextId, now, arrivals>>
    /\ UNCHANGED clientVars

GetById(r) ==
    /\ r.pc = "findById"
    /\ Finish(r, GetByIdSends(r, collection), collection)
    /\ UNCHANGED <<nextId, now, arrivals>>
    /\ UNCHANGED clientVars

\* POST / : newProduct.save() inserts the document
CreateSave(r) ==
    /\ r.pc = "save"
    /\ Finish(r, CreateSaveSends(r, collection),
              collection \cup {r.doc})
    /\ UNCHANGED <<nextId, now, arrivals>>
    /\ UNCHANGED clientVars

\* PUT /:id up to the await of findByIdAndUpdate: the ownership read, the
\* checks, and Date.now() of the update document.
PutRead(r) ==
    /\ r.pc = "putRead"
    /\ LET sent == PutReadSends(r, collection)
       IN IF sent # <<>>
          THEN Finish(r, sent, collection)
          ELSE /\ reqs' = (reqs (-) SetToBag({r}))
                           (+) SetToBag({[r EXCEPT !.pc = "putWrite", !.ts = now]})
               /\ resp' = NoResp
               /\ UNCHANGED collection
    /\ UNCHANGED <<nextId, now, arrivals>>
    /\ UNCHANGED clientVars

\* PUT /:id : findByIdAndUpdate executes and the handler responds
PutWrite(r) ==
    /\ r.pc = "putWrite"
    /\ Finish(r, PutWriteSends(r, collection),
              FindByIdAndUpdate(collection, r.id, r.body, r.ts).coll)
    /\ UNCHANGED <<nextId, now, arrivals>>
    /\ UNCHANGED clientVars

\* DELETE /:id up to the await of deleteOne
DelRead(r) ==
    /\ r.pc = "delRead"
    /\ LET sent == DelReadSends(r, collection)
       IN IF sent # <<>>
          THEN Finish(r, sent, collection)
          ELSE /\ reqs' = (reqs (-) SetToBag({r}))
                           (+) SetToBag({[r EXCEPT !.pc = "delRemove"]})
               /\ resp' = NoResp
               /\ UNCHANGED collection
    /\ UNCHANGED <<nextId, now, arrivals>>
    /\ UNCHANGED clientVars

\* DELETE /:id : product.deleteOne() executes and the handler responds
DelRemove(r) ==
    /\ r.pc = "delRemove"
    /\ Finish(r, DelRemoveSends(r, collection),
              DeleteOne(collection, r.id))
    /\ UNCHANGED <<nextId, now, arrivals>>
    /\ UNCHANGED clientVars

AwaitingStore ==
    {"find", "findById", "mine", "save", "putRead", "putWrite", "delRead", "delRemove"}

\* The awaited store operation rejects with an internal error (not a
\* CastError) and has no effect: the handler's catch block answers.
StoreFail(r) ==
    /\ r.pc \in AwaitingStore
    /\ Finish(r, StoreFailSends(r), collection)
    /\ UNCHANGED <<nextId, now, arrivals>>
    /\ UNCHANGED clientVars

\* The clock advances.
Tick ==
    /\ now < MaxTime
    /\ now' = now + 1
    /\ resp' = NoResp
    /\ UNCHANGED <<collection, nextId, reqs, arrivals>>
    /\ UNCHANGED clientVars

-----------------------------------------------------------------------------
(* Client: the product page over the in-memory product service             *)
(* (frontend/src/services/product-service.ts, ProductFilters)              *)
(*                                                                         *)
(* A search text is a sequence of one-character strings and Chars gives    *)
(* the characters of a name or description; a rating is kept in tenths     *)
(* (4.5 is 45); a nullable value is None or Some(v).                       *)

None == <<>>
Some(v) == <<v>>

\* mockProducts of the product service
mockProducts == <<
    [id |-> "1",
     name |-> "Apple MacBook Pro",
     description |-> "High-performance laptop for professionals",
     category |-> "Electronics", price |-> 1999, rating |-> 45,
     createdAt |-> "2023-01-15T08:00:00Z",
     updatedAt |-> "2023-01-15T08:00:00Z"],
    [id |-> "2",
     name |-> "Sony Wireless Headphones",
     description |-> "Noise-cancelling over-ear headphones",
     category |-> "Audio", price |-> 349, rating |-> 48,
     createdAt |-> "2023-02-10T10:30:00Z",
     updatedAt |-> "2023-02-10T10:30:00Z"],
    [id |-> "3",
     name |-> "Samsung 4K Smart TV",
     description |-> "65-inch QLED display with smart features",
     category |-> "Electronics", price |-> 1299, rating |-> 43,
     createdAt |-> "2023-03-05T14:15:00Z",
     updatedAt |-> "2023-03-05T14:15:00Z"],
    [id |-> "4",
     name |-> "Ergonomic Office Chair",
     description |-> "Adjustable chair with lumbar support",
     category |-> "Furniture", price |-> 299, rating |-> 40,
     createdAt |-> "2023-03-20T09:45:00Z",
     updatedAt |-> "2023-03-20T09:45:00Z"],
    [id |-> "5",
     name |-> "Canon DSLR Camera",
     description |-> "Professional camera with 24MP sensor",
     category |-> "Photography", price |-> 899, rating |-> 47,
     createdAt |-> "2023-04-12T11:20:00Z",
     updatedAt |-> "2023-04-12T11:20:00Z"],
    [id |-> "6",
     name |-> "Fitness Tracker Watch",
     description |-> "Waterproof smartwatch with health tracking",
     category |-> "Wearables", price |-> 149, rating |-> 39,
     createdAt |-> "2023-05-05T16:10:00Z",
     updatedAt |-> "2023-05-05T16:10:00Z"],
    [id |-> "7",
     name |-> "Professional Knife Set",
     description |-> "8-piece chef's knife collection",
     category |-> "Kitchen", price |-> 179, rating |-> 42,
     createdAt |-> "2023-06-18T13:25:00Z",
     updatedAt |-> "2023-06-18T13:25:00Z"],
    [id |-> "8",
     name |-> "Wireless Gaming Mouse",
     description |-> "High-precision mouse with programmable buttons",
     category |-> "Gaming", price |-> 89, rating |-> 46,
     createdAt |-> "2023-07-22T15:40:00Z",
     updatedAt |-> "2023-07-22T15:40:00Z"]
>>

\* The characters of the strings that name and describe products, for the
\* string operations of the filter
Chars ==
    ("Apple MacBook Pro" :>
        <<"A", "p", "p", "l", "e", " ", "M", "a", "c", "B", "o", "o", "k",
          " ", "P", "r", "o">>) @@
    ("High-performance laptop for professionals" :>
        <<"H", "i", "g", "h", "-", "p", "e", "r", "f", "o", "r", "m", "a",
          "n", "c", "e", " ", "l", "a", "p", "t", "o", "p", " ", "f", "o",
          "r", " ", "p", "r", "o", "f", "e", "s", "s", "i", "o", "n", "a",
          "l", "s">>) @@
    ("Sony Wireless Headphones" :>
        <<"S", "o", "n", "y", " ", "W", "i", "r", "e", "l", "e", "s", "s",
          " ", "H", "e", "a", "d", "p", "h", "o", "n", "e", "s">>) @@
    ("Noise-cancelling over-ear headphones" :>
        <<"N", "o", "i", "s", "e", "-", "c", "a", "n", "c", "e", "l", "l",
          "i", "n", "g", " ", "o", "v", "e", "r", "-", "e", "a", "r", " ",
          "h", "e", "a", "d", "p", "h", "o", "n", "e", "s">>) @@
    ("Samsung 4K Smart TV" :>
        <<"S", "a", "m", "s", "u", "n", "g", " ", "4", "K", " ", "S", "m",
          "a", "r", "t", " ", "T", "V">>) @@
    ("65-inch QLED display with smart features" :>
        <<"6", "5", "-", "i", "n", "c", "h", " ", "Q", "L", "E", "D", " ",
          "d", "i", "s", "p", "l", "a", "y", " ", "w", "i", "t", "h", " ",
          "s", "m", "a", "r", "t", " ", "f", "e", "a", "t", "u", "r", "e",
          "s">>) @@
    ("Ergonomic Office Chair" :>
        <<"E", "r", "g", "o", "n", "o", "m", "i", "c", " ", "O", "f", "f",
          "i", "c", "e", " ", "C", "h", "a", "i", "r">>) @@
    ("Adjustable chair with lumbar support" :>
        <<"A", "d", "j", "u", "s", "t", "a", "b", "l", "e", " ", "c", "h",
          "a", "i", "r", " ", "w", "i", "t", "h", " ", "l", "u", "m", "b",
          "a", "r", " ", "s", "u", "p", "p", "o", "r", "t">>) @@
    ("Canon DSLR Camera" :>
        <<"C", "a", "n", "o", "n", " ", "D", "S", "L", "R", " ", "C", "a",
          "m", "e", "r", "a">>) @@
    ("Professional camera with 24MP sensor" :>
        <<"P", "r", "o", "f", "e", "s", "s", "i", "o", "n", "a", "l", " ",
          "c", "a", "m", "e", "r", "a", " ", "w", "i", "t", "h", " ", "2",
          "4", "M", "P", " ", "s", "e", "n", "s", "o", "r">>) @@
    ("Fitness Tracker Watch" :>
        <<"F", "i", "t", "n", "e", "s", "s", " ", "T", "r", "a", "c", "k",
          "e", "r", " ", "W", "a", "t", "c", "h">>) @@
    ("Waterproof smartwatch with health tracking" :>
        <<"W", "a", "t", "e", "r", "p", "r", "o", "o", "f", " ", "s", "m",
          "a", "r", "t", "w", "a", "t", "c", "h", " ", "w", "i", "t", "h",
          " ", "h", "e", "a", "l", "t", "h", " ", "t", "r", "a", "c", "k",
          "i", "n", "g">>) @@
    ("Professional Knife Set" :>
        <<"P", "r", "o", "f", "e", "s", "s", "i", "o", "n", "a", "l", " ",
          "K", "n", "i", "f", "e", " ", "S", "e", "t">>) @@
    ("8-piece chef's knife collection" :>
        <<"8", "-", "p", "i", "e", "c", "e", " ", "c", "h", "e", "f", "'",
          "s", " ", "k", "n", "i", "f", "e", " ", "c", "o", "l", "l", "e",
          "c", "t", "i", "o", "n">>) @@
    ("Wireless Gaming Mouse" :>
        <<"W", "i", "r", "e", "l", "e", "s", "s", " ", "G", "a", "m", "i",
          "n", "g", " ", "M", "o", "u", "s", "e">>) @@
    ("High-precision mouse with programmable buttons" :>
        <<"H", "i", "g", "h", "-", "p", "r", "e", "c", "i", "s", "i", "o",
          "n", " ", "m", "o", "u", "s", "e", " ", "w", "i", "t", "h", " ",
          "p", "r", "o", "g", "r", "a", "m", "m", "a", "b", "l", "e", " ",
          "b", "u", "t", "t", "o", "n", "s">>) @@
    ("Pro Stand" :>
        <<"P", "r", "o", " ", "S", "t", "a", "n", "d">>) @@
    ("Desk stand" :>
        <<"D", "e", "s", "k", " ", "s", "t", "a", "n", "d">>) @@
    ("Cable" :>
        <<"C", "a", "b", "l", "e">>) @@
    ("xyz cable" :>
        <<"x", "y", "z", " ", "c", "a", "b", "l", "e">>)

\* String.prototype.toLowerCase on the letters
UpperCase == <<"A", "B", "C", "D", "E", "F", "G", "H", "I", "J", "K", "L", "M",
               "N", "O", "P", "Q", "R", "S", "T", "U", "V", "W", "X", "Y", "Z">>
LowerCase == <<"a", "b", "c", "d", "e", "f", "g", "h", "i", "j", "k", "l", "m",
               "n", "o", "p", "q", "r", "s", "t", "u", "v", "w", "x", "y", "z">>
LowerOf ==
    [c \in {UpperCase[i] : i \in DOMAIN UpperCase} |->
        LowerCase[CHOOSE i \in DOMAIN UpperCase : UpperCase[i] = c]]
ToLowerChar(c) == IF c \in DOMAIN LowerOf THEN LowerOf[c] ELSE c
ToLowerCase(s) == [i \in DOMAIN s |-> ToLowerChar(s[i])]

\* String.prototype.includes
Includes(s, t) ==
    \E i \in 0..(Len(s) - Len(t)) : SubSeq(s, i + 1, i + Len(t)) = t

\* getCategories: Array.from(new Set(mockProducts.map(p => p.category))) of
\* the array as it is at the call,
\* the categories in order of first occurrence
RECURSIVE Distinct(_)
Distinct(s) ==
    IF s = <<>> THEN <<>>
    ELSE LET front == Distinct(SubSeq(s, 1, Len(s) - 1))
             last == s[Len(s)]
         IN IF \E i \in DOMAIN front : front[i] = last
            THEN front ELSE Append(front, last)
getCategories(array) == Distinct([i \in DOMAIN array |-> array[i].category])

\* sonner's toast.success / toast.error / toast.info
NoToast == [kind |-> "none", message |-> ""]
Toast(kind, message) == [kind |-> kind, message |-> message]

\* The initial filters of ProductPage, and clearedFilters of ProductFilters
NoFilters ==
    [category |-> None, minPrice |-> None, maxPrice |-> None,
     minRating |-> None, search |-> <<>>]

\* The filter effect of ProductPage, criterion by criterion.  A criterion is
\* tested for truthiness or against null as the code tests it, and
\* `bound || d` is d when the bound is 0.
ByCategory(result, f) ==
    IF f.category # None /\ f.category[1] # ""
    THEN SelectSeq(result, LAMBDA product : product.category = f.category[1])
    ELSE result

ByMinPrice(result, f) ==
    IF f.minPrice # None
    THEN SelectSeq(result, LAMBDA product :
            product.price >= (IF f.minPrice[1] # 0 THEN f.minPrice[1] ELSE 0))
    ELSE result

\* product.price <= (filters.maxPrice || Infinity)
ByMaxPrice(result, f) ==
    IF f.maxPrice # None
    THEN SelectSeq(result, LAMBDA product :
            IF f.maxPrice[1] # 0 THEN product.price <= f.maxPrice[1] ELSE TRUE)
    ELSE result

ByMinRatingStrict(result, f) ==
    IF f.minRating # None
    THEN SelectSeq(result, LAMBDA product : product.rating > f.minRating[1])
    ELSE result
ByMinRating(result, f) ==
    IF f.minRating # None
    THEN SelectSeq(result, LAMBDA product :
            product.rating >= (IF f.minRating[1] # 0 THEN f.minRating[1] ELSE 0))
    ELSE result

BySearchCaseSensitive(result, f) ==
    IF f.search # <<>>
    THEN SelectSeq(result, LAMBDA product :
            \/ Includes(Chars[product.name], f.search)
            \/ Includes(Chars[product.description], f.search))
    ELSE result
BySearch(result, f) ==
    IF f.search # <<>>
    THEN LET searchTerm == ToLowerCase(f.search)
         IN SelectSeq(result, LAMBDA product :
               \/ Includes(ToLowerCase(Chars[product.name]), searchTerm)
               \/ Includes(ToLowerCase(Chars[product.description]), searchTerm))
    ELSE result

FilterResultNoCategory(prods, f) ==
    BySearch(ByMinRating(ByMaxPrice(ByMinPrice(prods, f), f), f), f)
FilterResult(prods, f) ==
    BySearch(ByMinRating(ByMaxPrice(ByMinPrice(ByCategory(prods, f), f), f), f), f)

\* What the controls of ProductFilters can hand to their handlers: positions
\* of the price slider (0..2000, step 10) with the lower thumb first,
\* positions of the rating slider (0..5, step 0.5), search texts.
PriceStops == {0, 300, 1000, 2000}
PriceRanges == {<<lo, hi>> : lo \in PriceStops, hi \in PriceStops} \cap
               {v \in Seq(PriceStops) : Len(v) = 2 /\ v[1] <= v[2]}
RatingStops == {0, 40, 45, 50}
SearchTexts == {<<>>, <<"P", "R", "O">>, <<"x", "y", "z">>}

-----------------------------------------------------------------------------
(* Client: the auth context (frontend/src/contexts/auth-context.tsx)       *)

Emails == {"a@x.io", "b@x.io"}
Passwords == {"pw1", "pw2"}

\* 'mock_jwt_token_' + Math.random().toString(36).substring(2)
MockTokens == {"mock_jwt_token_a", "mock_jwt_token_b"}

\* Tokens the backend's auth routes issued to user u1 in an earlier session,
\* as the strings a client may have kept in its storage.
IssuedTokens == {"jwt.u1.exp1", "jwt.u1.late"}

\* The bearer token the backend's verifier sees when the string is presented:
\* a fabricated mock token is not a JWT.
Decode(s) ==
    CASE s = "jwt.u1.exp1" -> [kind |-> "signed", user |-> "u1", exp |-> 1]
      [] s = "jwt.u1.late" -> [kind |-> "signed", user |-> "u1", exp |-> MaxTime + 1]
      [] OTHER -> [kind |-> "malformed", user |-> NoUser, exp |-> 0]

\* JSON.stringify of a User, as the pieces it concatenates, and JSON.parse of
\* such a string
JsonStringify(u) == <<"{\"id\":\"", u.id, "\",\"email\":\"", u.email, "\"}">>
JsonParse(s) == [id |-> s[2], email |-> s[4]]

EmptyStorage == [jwt_token |-> None, user |-> None]

\* localStorage.setItem may throw (storage full or refused): both writes
\* succeed, the first throws, or the second throws.
SetItemOutcomes == {"stored", "first throws", "second throws"}

\* The effect on mount
mountEffect ==
    /\ authIsLoading
    /\ IF localStorage.jwt_token # None /\ localStorage.user # None
       THEN /\ token' = localStorage.jwt_token
            /\ authUser' = Some(JsonParse(localStorage.user[1]))
       ELSE UNCHANGED <<token, authUser>>
    /\ authIsLoading' = FALSE
    /\ toast' = NoToast
    /\ UNCHANGED <<localStorage, returned, loggedOut>>
    /\ UNCHANGED <<filterVars, crudVars, backendVars>>

\* The body login and signup share: the try block up to the first throw, the
\* catch block after it.  Neither reads its password argument.
Authenticate(email, mockToken, outcome, welcome, failure) ==
    LET mockUser == [id |-> "1", email |-> email]
    IN /\ IF outcome = "stored"
          THEN /\ localStorage' = [jwt_token |-> Some(mockToken),
                                   user |-> Some(JsonStringify(mockUser))]
               /\ authUser' = Some(mockUser)
               /\ token' = Some(mockToken)
               /\ toast' = Toast("success", welcome)
               /\ returned' = Some(TRUE)
          ELSE /\ localStorage' =
                     IF outcome = "second throws"
                     THEN [localStorage EXCEPT !.jwt_token = Some(mockToken)]
                     ELSE localStorage
               /\ UNCHANGED <<authUser, token>>
               /\ toast' = Toast("error", failure)
               /\ returned' = Some(FALSE)
       /\ UNCHANGED <<authIsLoading, loggedOut>>
       /\ UNCHANGED <<filterVars, crudVars, backendVars>>

\* login and signup are called from forms, which accept input once the mount
\* effect has run.
loginChecksPassword(email, password, mockToken, outcome) ==
    /\ ~authIsLoading
    /\ Authenticate(email, mockToken,
                    IF password = "pw1" THEN outcome ELSE "first throws",
                    "Login successful!",
                    "Login failed. Please check your credentials.")
login(email, password, mockToken, outcome) ==
    /\ ~authIsLoading
    /\ Authenticate(email, mockToken, outcome, "Login successful!",
                    "Login failed. Please check your credentials.")

signup(email, password, mockToken, outcome) ==
    /\ ~authIsLoading
    /\ Authenticate(email, mockToken, outcome, "Account created successfully!",
                    "Signup failed. Please try again.")

\* logout; the Header shows its button while user is not null.  It sends
\* nothing to the backend.
logout ==
    /\ ~authIsLoading
    /\ authUser # None
    /\ localStorage' = EmptyStorage
    /\ authUser' = None
    /\ token' = None
    /\ loggedOut' = loggedOut \cup {token[i] : i \in DOMAIN token}
    /\ toast' = Toast("info", "You've been logged out")
    /\ UNCHANGED <<authIsLoading, returned>>
    /\ UNCHANGED <<filterVars, crudVars, backendVars>>

\* The page is loaded again: AuthProvider is constructed anew over the
\* storage as it is, and its mount effect is due.
remount ==
    /\ ~authIsLoading
    /\ authUser' = None
    /\ token' = None
    /\ authIsLoading' = TRUE
    /\ toast' = NoToast
    /\ UNCHANGED <<localStorage, returned, loggedOut>>
    /\ UNCHANGED <<filterVars, crudVars, backendVars>>

-----------------------------------------------------------------------------
(* Client: initial state and the product page's actions *)

\* ProductPage, ProductFilters and the product service when the page mounts
PageInit ==
    /\ products = <<>>
    /\ filteredProducts = <<>>
    /\ categories = <<>>
    /\ filters = NoFilters
    /\ localFilters = NoFilters
    /\ priceRange = <<0, 2000>>
    /\ isLoading = TRUE
    /\ effectPending = TRUE
    /\ store = mockProducts
    /\ aliased = FALSE
    /\ isFormOpen = FALSE
    /\ currentProduct = None
    /\ isSubmitting = FALSE
    /\ isDeleteDialogOpen = FALSE
    /\ productToDelete = None
    /\ calls = <<>>
    /\ started = 0
    /\ toast = NoToast

\* AuthProvider before its mount effect, over a storage that holds `storage`
AuthInit(storage) ==
    /\ authUser = None
    /\ token = None
    /\ authIsLoading = TRUE
    /\ localStorage = storage
    /\ returned = None
    /\ loggedOut = {}

ClientInit == PageInit /\ AuthInit(EmptyStorage)

\* loadData: getProducts and getCategories have resolved
LoadData ==
    /\ isLoading
    /\ products' = store
    /\ aliased' = TRUE
    /\ filteredProducts' = store
    /\ categories' = getCategories(store)
    /\ isLoading' = FALSE
    /\ effectPending' = TRUE
    /\ UNCHANGED <<filters, localFilters, priceRange>>
    /\ toast' = NoToast
    /\ UNCHANGED <<store, isFormOpen, currentProduct, isSubmitting,
                   isDeleteDialogOpen, productToDelete, calls, started>>
    /\ UNCHANGED <<authVars, backendVars>>

\* The effect on [filters, products], run after the render that changed one
\* of them.
FilterEffect ==
    /\ effectPending
    /\ filteredProducts' = FilterResult(products, filters)
    /\ effectPending' = FALSE
    /\ UNCHANGED <<products, categories, filters, localFilters, priceRange, isLoading>>
    /\ toast' = NoToast
    /\ UNCHANGED <<crudVars, authVars, backendVars>>

\* ProductFilters.updateFilters, with ProductPage.handleFilterChange as
\* onFilterChange.  React runs the effects of a render before it handles the
\* next event.
updateFilters(newFilters) ==
    /\ ~effectPending
    /\ LET updatedFilters ==
             [k \in DOMAIN localFilters |->
                 IF k \in DOMAIN newFilters THEN newFilters[k] ELSE localFilters[k]]
       IN /\ localFilters' = updatedFilters
          /\ filters' = updatedFilters
    /\ effectPending' = TRUE
    /\ UNCHANGED <<products, filteredProducts, categories, isLoading>>
    /\ toast' = NoToast
    /\ UNCHANGED <<crudVars, authVars, backendVars>>

handleSearchChange(value) ==
    /\ updateFilters([search |-> value])
    /\ UNCHANGED priceRange

handleCategoryChange(value) ==
    /\ updateFilters([category |-> IF value = "all" THEN None ELSE Some(value)])
    /\ UNCHANGED priceRange

handlePriceRangeChange(value) ==
    /\ ~effectPending
    /\ priceRange' = value
    /\ UNCHANGED <<products, filteredProducts, categories, filters, localFilters,
                   isLoading, effectPending>>
    /\ toast' = NoToast
    /\ UNCHANGED <<crudVars, authVars, backendVars>>

handlePriceRangeCommit ==
    /\ updateFilters([minPrice |-> Some(priceRange[1]),
                      maxPrice |-> Some(priceRange[2])])
    /\ UNCHANGED priceRange

handleRatingChange(value) ==
    /\ updateFilters([minRating |-> Some(value[1])])
    /\ UNCHANGED priceRange

handleClearFilters ==
    /\ ~effectPending
    /\ localFilters' = NoFilters
    /\ priceRange' = <<0, 2000>>
    /\ filters' = NoFilters
    /\ effectPending' = TRUE
    /\ UNCHANGED <<products, filteredProducts, categories, isLoading>>
    /\ toast' = NoToast
    /\ UNCHANGED <<crudVars, authVars, backendVars>>

\* The category select offers "all" and the loaded categories.
CategoryItems == {"all"} \cup {categories[i] : i \in DOMAIN categories}

ClientNext ==
    \/ LoadData
    \/ FilterEffect
    \/ \E value \in SearchTexts : handleSearchChange(value)
    \/ \E value \in CategoryItems : handleCategoryChange(value)
    \/ \E value \in PriceRanges : handlePriceRangeChange(value)
    \/ handlePriceRangeCommit
    \/ \E stop \in RatingStops : handleRatingChange(<<stop>>)
    \/ handleClearFilters

-----------------------------------------------------------------------------
(* Client: create, update and delete through the product service          *)

\* What ProductForm hands to onSubmit (ProductFormData): name, description
\* and category are required, price is at least 0 (0 is the form's default).
FormInputs ==
    {[name |-> "Pro Stand",
      description |-> "Desk stand",
      category |-> "Furniture", price |-> 0, rating |-> 30],
     [name |-> "Cable",
      description |-> "xyz cable",
      category |-> "Audio", price |-> 300, rating |-> 45]}

\* `${Math.floor(Math.random() * 10000)}` is one of "0" .. "9999": two of them
RandomIds == {"1", "4711"}

\* new Date().toISOString(): an instant after every timestamp of mockProducts
Now == "2025-01-01T00:00:00.000Z"

\* createProduct: newProduct
NewMockProduct(id, productData) ==
    [id |-> id, name |-> productData.name,
     description |-> productData.description,
     category |-> productData.category, price |-> productData.price,
     rating |-> productData.rating, createdAt |-> Now, updatedAt |-> Now]

\* Array.prototype.findIndex(p => p.id === id), counted from 1; 0 for -1
findIndexFirst(array, id) == IF array = <<>> THEN 0 ELSE 1
findIndex(array, id) ==
    IF \E i \in DOMAIN array : array[i].id = id
    THEN CHOOSE i \in DOMAIN array :
            /\ array[i].id = id
            /\ \A j \in 1..(i - 1) : array[j].id # id
    ELSE 0

\* updateProduct: {...mockProducts[index], ...productData, updatedAt}
UpdatedProduct(old, productData) ==
    [old EXCEPT !.name = productData.name,
                !.description = productData.description,
                !.category = productData.category,
                !.price = productData.price,
                !.rating = productData.rating,
                !.updatedAt = Now]

\* mockProducts.splice(index, 1)
SpliceToEnd(array, index) == SubSeq(array, 1, index - 1)
Splice(array, index) ==
    SubSeq(array, 1, index - 1) \o SubSeq(array, index + 1, Len(array))

\* The timer callbacks of updateProduct and deleteProduct over the array as
\* it is when the timer fires: the array they leave, and what the promise
\* resolves with or the message of the Error it rejects with.
updateProduct(array, id, productData) ==
    LET index == findIndex(array, id)
    IN IF index # 0
       THEN LET updatedProduct == UpdatedProduct(array[index], productData)
            IN [array |-> [array EXCEPT ![index] = updatedProduct],
                resolved |-> Some(updatedProduct), rejected |-> None]
       ELSE [array |-> array, resolved |-> None,
             rejected |-> Some("Product not found")]

deleteProduct(array, id) ==
    LET index == findIndex(array, id)
    IN IF index # 0
       THEN [array |-> Splice(array, index),
             resolved |-> Some(TRUE), rejected |-> None]
       ELSE [array |-> array, resolved |-> None,
             rejected |-> Some("Product not found")]

\* The functional updaters handed to setProducts
AfterCreate(prevProducts, updatedProduct) == Append(prevProducts, updatedProduct)
AfterUpdate(prevProducts, id, updatedProduct) ==
    [i \in DOMAIN prevProducts |->
        IF prevProducts[i].id = id THEN updatedProduct ELSE prevProducts[i]]
AfterDelete(prevProducts, id) ==
    SelectSeq(prevProducts, LAMBDA p : p.id # id)

\* The state the updater receives: getProducts resolved the service's array
\* itself, so until setProducts stores another array `products` is that
\* array, as the service call has just left it.
PrevProducts == IF aliased THEN store' ELSE products

\* setProducts(updater): a new array, so the effect on [filters, products] is
\* due.
setProductsNoEffect(next) ==
    /\ products' = next
    /\ aliased' = FALSE
    /\ UNCHANGED effectPending
setProducts(next) ==
    /\ products' = next
    /\ aliased' = FALSE
    /\ effectPending' = TRUE

\* The products the grid or the table shows, and those of them the user
\* reaches for: the one on top.
Shown == IF isLoading THEN <<>> ELSE filteredProducts
PickPositions == {1}
Picks == {Shown[i] : i \in DOMAIN Shown \cap PickPositions}

handleAddProduct ==
    /\ ~effectPending
    /\ ~isFormOpen /\ ~isDeleteDialogOpen
    /\ currentProduct' = None
    /\ isFormOpen' = TRUE
    /\ toast' = NoToast
    /\ UNCHANGED <<store, aliased, isSubmitting, isDeleteDialogOpen,
                   productToDelete, calls, started>>
    /\ UNCHANGED <<filterVars, authVars, backendVars>>

handleEditProduct(product) ==
    /\ ~effectPending
    /\ ~isFormOpen /\ ~isDeleteDialogOpen
    /\ currentProduct' = Some(product)
    /\ isFormOpen' = TRUE
    /\ toast' = NoToast
    /\ UNCHANGED <<store, aliased, isSubmitting, isDeleteDialogOpen,
                   productToDelete, calls, started>>
    /\ UNCHANGED <<filterVars, authVars, backendVars>>

\* handleProductSubmit up to its await: the submit button is disabled while
\* isSubmitting.  createProduct builds newProduct at the call.
handleProductSubmit(data) ==
    /\ ~effectPending
    /\ isFormOpen /\ ~isSubmitting
    /\ started < MaxCalls
    /\ isSubmitting' = TRUE
    /\ started' = started + 1
    /\ IF currentProduct # None
       THEN calls' = Append(calls, [op |-> "update", id |-> currentProduct[1].id,
                                    data |-> data])
       ELSE \E id \in RandomIds :
               calls' = Append(calls, [op |-> "create", id |-> id, data |-> data])
    /\ toast' = NoToast
    /\ UNCHANGED <<store, aliased, isFormOpen, currentProduct,
                   isDeleteDialogOpen, productToDelete>>
    /\ UNCHANGED <<filterVars, authVars, backendVars>>

\* onCancel of ProductForm: setIsFormOpen(false)
onCancel ==
    /\ ~effectPending
    /\ isFormOpen
    /\ isFormOpen' = FALSE
    /\ toast' = NoToast
    /\ UNCHANGED <<store, aliased, currentProduct, isSubmitting,
                   isDeleteDialogOpen, productToDelete, calls, started>>
    /\ UNCHANGED <<filterVars, authVars, backendVars>>

handleDeleteClick(productId) ==
    /\ ~effectPending
    /\ ~isFormOpen /\ ~isDeleteDialogOpen
    /\ productToDelete' = Some(productId)
    /\ isDeleteDialogOpen' = TRUE
    /\ toast' = NoToast
    /\ UNCHANGED <<store, aliased, isFormOpen, currentProduct, isSubmitting,
                   calls, started>>
    /\ UNCHANGED <<filterVars, authVars, backendVars>>

\* confirmDelete up to its await.  The dialog's action button closes the
\* dialog (onOpenChange(false)) when it is clicked.
confirmDelete ==
    /\ ~effectPending
    /\ isDeleteDialogOpen
    /\ started < MaxCalls
    /\ isDeleteDialogOpen' = FALSE
    /\ IF productToDelete = None
       THEN UNCHANGED <<calls, started>>
       ELSE /\ calls' = Append(calls, [op |-> "delete", id |-> productToDelete[1],
                                       data |-> None])
            /\ started' = started + 1
    /\ toast' = NoToast
    /\ UNCHANGED <<store, aliased, isFormOpen, currentProduct, isSubmitting,
                   productToDelete>>
    /\ UNCHANGED <<filterVars, authVars, backendVars>>

\* The service's timers all run 400 ms: the calls end in the order they were
\* made.  The timer callback and the continuation of the handler's await run
\* without a render between them.

\* createProduct's timer fires and handleProductSubmit continues
createProductDoneNoFinally ==
    /\ ~effectPending
    /\ calls # <<>> /\ Head(calls).op = "create"
    /\ LET newProduct == NewMockProduct(Head(calls).id, Head(calls).data)
       IN /\ store' = Append(store, newProduct)
          /\ setProducts(AfterCreate(PrevProducts, newProduct))
    /\ toast' = Toast("success", "Product created successfully")
    /\ isFormOpen' = FALSE
    /\ UNCHANGED isSubmitting
    /\ calls' = Tail(calls)
    /\ UNCHANGED <<currentProduct, isDeleteDialogOpen, productToDelete, started>>
    /\ UNCHANGED <<filteredProducts, categories, filters, localFilters,
                   priceRange, isLoading>>
    /\ UNCHANGED <<authVars, backendVars>>
createProductDone ==
    /\ ~effectPending
    /\ calls # <<>> /\ Head(calls).op = "create"
    /\ LET newProduct == NewMockProduct(Head(calls).id, Head(calls).data)
       IN /\ store' = Append(store, newProduct)
          /\ setProducts(AfterCreate(PrevProducts, newProduct))
    /\ toast' = Toast("success", "Product created successfully")
    /\ isFormOpen' = FALSE
    /\ isSubmitting' = FALSE
    /\ calls' = Tail(calls)
    /\ UNCHANGED <<currentProduct, isDeleteDialogOpen, productToDelete, started>>
    /\ UNCHANGED <<filteredProducts, categories, filters, localFilters,
                   priceRange, isLoading>>
    /\ UNCHANGED <<authVars, backendVars>>

\* updateProduct's timer fires and handleProductSubmit continues
updateProductDone ==
    /\ ~effectPending
    /\ calls # <<>> /\ Head(calls).op = "update"
    /\ LET id == Head(calls).id
           call == updateProduct(store, id, Head(calls).data)
       IN /\ store' = call.array
          /\ IF call.rejected = None
             THEN /\ setProducts(AfterUpdate(PrevProducts, id, call.resolved[1]))
                  /\ toast' = Toast("success", "Product updated successfully")
                  /\ isFormOpen' = FALSE
             ELSE /\ toast' = Toast("error", "Failed to update product")
                  /\ UNCHANGED <<products, aliased, effectPending, isFormOpen>>
    /\ isSubmitting' = FALSE
    /\ calls' = Tail(calls)
    /\ UNCHANGED <<currentProduct, isDeleteDialogOpen, productToDelete, started>>
    /\ UNCHANGED <<filteredProducts, categories, filters, localFilters,
                   priceRange, isLoading>>
    /\ UNCHANGED <<authVars, backendVars>>

\* deleteProduct's timer fires and confirmDelete continues
deleteProductDone ==
    /\ ~effectPending
    /\ calls # <<>> /\ Head(calls).op = "delete"
    /\ LET id == Head(calls).id
           call == deleteProduct(store, id)
       IN /\ store' = call.array
          /\ IF call.rejected = None
             THEN /\ setProducts(AfterDelete(PrevProducts, id))
                  /\ toast' = Toast("success", "Product deleted successfully")
             ELSE /\ toast' = Toast("error", "Failed to delete product")
                  /\ UNCHANGED <<products, aliased, effectPending>>
    /\ isDeleteDialogOpen' = FALSE
    /\ productToDelete' = None
    /\ calls' = Tail(calls)
    /\ UNCHANGED <<isFormOpen, currentProduct, isSubmitting, started>>
    /\ UNCHANGED <<filteredProducts, categories, filters, localFilters,
                   priceRange, isLoading>>
    /\ UNCHANGED <<authVars, backendVars>>

\* The search texts typed while products are created, updated and deleted
PageSearchTexts == {<<>>, <<"x", "y", "z">>}

PageNext ==
    \/ LoadData
    \/ FilterEffect
    \/ \E value \in PageSearchTexts : handleSearchChange(value)
    \/ handleAddProduct
    \/ \E product \in Picks : handleEditProduct(product)
    \/ \E data \in FormInputs : handleProductSubmit(data)
    \/ onCancel
    \/ \E product \in Picks : handleDeleteClick(product.id)
    \/ confirmDelete
    \/ createProductDone
    \/ updateProductDone
    \/ deleteProductDone

-----------------------------------------------------------------------------
(* A session of the client, then requests that present a token the client  *)
(* has dropped at logout                                                   *)

\* What the storage may hold when the provider mounts: nothing, or the
\* entries of an earlier session with a token the backend issued.
StoredSessions ==
    {EmptyStorage} \cup
    {[jwt_token |-> Some(s),
      user |-> Some(JsonStringify([id |-> "u1", email |-> "a@x.io"]))] :
        s \in IssuedTokens}

SessionInit ==
    /\ BackendInit
    /\ PageInit
    /\ \E storage \in StoredSessions : AuthInit(storage)

\* The auth context on its own
AuthNext ==
    \/ mountEffect
    \/ \E email \in Emails, password \in Passwords :
          \E mockToken \in MockTokens, outcome \in SetItemOutcomes :
             login(email, password, mockToken, outcome)
    \/ \E email \in Emails, password \in Passwords :
          \E mockToken \in MockTokens, outcome \in SetItemOutcomes :
             signup(email, password, mockToken, outcome)
    \/ logout
    \/ remount

SessionRoutes == {"list", "mine"}

SessionNext ==
    \/ mountEffect
    \/ \E email \in Emails, password \in Passwords :
          \E mockToken \in MockTokens, outcome \in SetItemOutcomes :
             login(email, password, mockToken, outcome)
    \/ \E email \in Emails, password \in Passwords :
          \E mockToken \in MockTokens, outcome \in SetItemOutcomes :
             signup(email, password, mockToken, outcome)
    \/ logout
    \/ /\ arrivals < MaxRequests
       /\ \E route \in SessionRoutes, s \in loggedOut :
             Arrive(route, Decode(s), 0, Null)
    \/ \E r \in Active : ListAll(r)
    \/ \E r \in Active : ListMine(r)
    \/ \E r \in Active : StoreFail(r)
    \/ Tick

-----------------------------------------------------------------------------

Init == BackendInit /\ ClientInit

Next ==
    \/ /\ arrivals < MaxRequests
       /\ \E route \in Routes, tok \in Tokens :
             \E id \in IdsOf(route), body \in BodiesOf(route) :
                Arrive(route, tok, id, body)
    \/ \E r \in Active : ListAll(r)
    \/ \E r \in Active : ListMine(r)
    \/ \E r \in Active : GetById(r)
    \/ \E r \in Active : CreateSave(r)
    \/ \E r \in Active : PutRead(r)
    \/ \E r \in Active : PutWrite(r)
    \/ \E r \in Active : DelRead(r)
    \/ \E r \in Active : DelRemove(r)
    \/ \E r \in Active : StoreFail(r)
    \/ Tick

Spec == Init /\ [][Next]_vars

ClientSpec == Init /\ [][ClientNext]_vars

PageSpec == Init /\ [][PageNext]_vars

\* The forms of the page with their scheduling, the filters left alone:
\* React runs a pending effect, and the event loop runs the callback of every
\* timer the service set (400 ms) and the continuation of the handler that
\* awaits it.
FormNext ==
    \/ LoadData
    \/ FilterEffect
    \/ handleAddProduct
    \/ \E product \in Picks : handleEditProduct(product)
    \/ \E data \in FormInputs : handleProductSubmit(data)
    \/ onCancel
    \/ \E product \in Picks : handleDeleteClick(product.id)
    \/ confirmDelete
    \/ createProductDone
    \/ updateProductDone
    \/ deleteProductDone

FormLiveSpec ==
    /\ Init
    /\ [][FormNext]_vars
    /\ WF_vars(FilterEffect)
    /\ SF_vars(createProductDone)
    /\ SF_vars(updateProductDone)
    /\ SF_vars(deleteProductDone)

AuthSpec == SessionInit /\ [][AuthNext]_vars

SessionSpec == SessionInit /\ [][SessionNext]_vars

-----------------------------------------------------------------------------
(* Claims about the backend, checked under Spec *)

Stored(id) == \E p \in collection : p.id = id

C2_VerifierFirst ==
    /\ resp.auth \in {"missing", "malformed", "badsig", "expired"}
          => resp.status = 401 /\ resp.n = 1 /\ ~resp.changed
    /\ \A r \in Active : r.user \in Users

C2_Witness ==
    /\ resp.auth = "expired"
    /\ resp.status = 401
    /\ resp.n = 1
    /\ \E r \in Active : r.user \in Users

\* C3: get-by-id, update or delete of an id that is malformed or not stored is
\* answered 404 (one response, not 500) and changes nothing.
C3_NotFound ==
    /\ \A r \in Active :
             r.pc \in {"findById", "putRead", "delRead"}
             /\ (~IsObjectId(r.id) \/ ~Stored(r.id))
             => LET sent == CASE r.pc = "findById" -> GetByIdSends(r, collection)
                              [] r.pc = "putRead" -> PutReadSends(r, collection)
                              [] r.pc = "delRead" -> DelReadSends(r, collection)
                IN /\ Len(sent) = 1
                   /\ sent[1].status = 404
                   /\ sent[1].message = "Product not found"
    /\ resp.status = 404 => ~resp.changed /\ resp.n = 1

C3_Witness ==
    /\ resp.status = 404
    /\ resp.route = "put"
    /\ \E r \in Active : r.pc = "findById" /\ ~IsObjectId(r.id)

\* C4: no step changes the createdBy of a stored product or gives a stored id
\* to another document, and a document that enters the collection carries the
\* caller of the create request that saved it and the id generated for it.
C4_CreatedByFixed ==
    [][/\ \A p \in collection : \A q \in collection' :
             q.id = p.id => q.createdBy = p.createdBy
       /\ \A q \in collection' :
             ~Stored(q.id)
             => \E r \in Active : /\ r.pc = "save"
                                  /\ reqs' = reqs (-) SetToBag({r})
                                  /\ q.createdBy = r.user
                                  /\ q.id = r.doc.id
       /\ \A q1, q2 \in collection' : q1.id = q2.id => q1 = q2]_vars

C4_Witness ==
    /\ resp.route = "put"
    /\ resp.status = 200
    /\ resp.changed
    /\ \E p \in collection :
          p.id > Cardinality(Seeds) /\ p.updatedAt > p.createdAt

\* C5: a successful update by the owner replaces the six body fields with the
\* request's values, sets updatedAt to a value >= the previous updatedAt, and
\* leaves id, createdBy, createdAt and every other product unchanged.
C5_UpdateFrame ==
    [][\A r \in Active :
          r.pc = "putWrite" /\ reqs' = reqs (-) SetToBag({r})
          /\ resp'.status = 200 /\ Stored(r.id)
          => LET old == FindById(collection, r.id)
                 new == FindById(collection', r.id)
             IN /\ new # Null
                /\ new.name = r.body.name
                /\ new.description = r.body.description
                /\ new.price = r.body.price
                /\ new.imageUrl = r.body.imageUrl
                /\ new.category = r.body.category
                /\ new.inStock = r.body.inStock
                /\ new.updatedAt >= old.updatedAt
                /\ new.id = old.id
                /\ new.createdBy = old.createdBy
                /\ new.createdAt = old.createdAt
                /\ collection' \ {new} = collection \ {old}]_vars

\* C6: a create followed at once by a get of the returned id gives a record
\* with the body's six fields, createdBy the caller, an id no stored product
\* had, and createdAt = updatedAt.
C6_CreateThenGet ==
    \A r \in Active :
       r.pc = "save"
       => LET created == CreateSaveSends(r, collection)[1]
              after == collection \cup {r.doc}
              got == GetByIdSends([r EXCEPT !.id = created.product.id], after)
          IN /\ created.status = 201
             /\ Len(got) = 1
             /\ got[1].status = 200
             /\ got[1].product.name = r.body.name
             /\ got[1].product.description = r.body.description
             /\ got[1].product.price = r.body.price
             /\ got[1].product.category = r.body.category
             /\ got[1].product.imageUrl = r.body.imageUrl
             /\ got[1].product.inStock = r.body.inStock
             /\ got[1].product.createdBy = r.user
             /\ got[1].product.createdAt = got[1].product.updatedAt
             /\ ~Stored(created.product.id)

C6_Witness ==
    /\ resp.route = "create"
    /\ resp.status = 201
    /\ resp.changed
    /\ Cardinality(collection) > 1

\* C7: list-all and list-mine answer with products in createdAt-descending
\* order: a product created strictly before another comes after it.
C7_NewestFirst ==
    \A r \in Active :
       r.pc \in {"find", "mine"}
       => \A sent \in (IF r.pc = "find"
                       THEN ListAllSends(r, collection)
                       ELSE ListMineSends(r, collection)) :
             LET ps == sent[1].products
             IN \A i, j \in 1..Len(ps) :
                   ps[i].createdAt < ps[j].createdAt => j < i

C7_Witness ==
    /\ resp.route = "list"
    /\ resp.status = 200
    /\ \E p, q \in collection : p.createdAt < q.createdAt

\* C8: list-mine answers with exactly the stored products whose createdBy is
\* the caller, each once.
C8_MineExact ==
    \A r \in Active :
       r.pc = "mine"
       => \A sent \in ListMineSends(r, collection) :
             LET ps == sent[1].products
             IN /\ sent[1].status = 200
                /\ \A p \in collection :
                      (p.createdBy = r.user) <=> (\E i \in 1..Len(ps) : ps[i] = p)
                /\ \A i, j \in 1..Len(ps) : ps[i] = ps[j] => i = j
                /\ \A i \in 1..Len(ps) : ps[i] \in collection

C8_Witness ==
    /\ resp.route = "mine"
    /\ resp.status = 200
    /\ \E p, q \in collection : p.createdBy # q.createdBy

\* C9: when the awaited store operation of a product route fails with an
\* internal error, the request gets one response, 500 "Server error", and the
\* collection is unchanged.
C9_ServerError ==
    /\ \A r \in Active :
          LET sent == StoreFailSends(r)
          IN /\ Len(sent) = 1
             /\ sent[1].status = 500
             /\ sent[1].message = "Server error"
    /\ resp.status = 500 => ~resp.changed /\ resp.n = 1

C9_Witness ==
    /\ resp.status = 500
    /\ resp.route = "put"
    /\ collection # Seeds

-----------------------------------------------------------------------------
(* Claims about the client, checked under ClientSpec *)

\* C10: once the filter effect has run, every product in the filtered view
\* satisfies each non-null price bound inclusively, a bound of 0 included:
\* minPrice <= price when minPrice is not null, and price <= maxPrice when
\* maxPrice is not null.
C10_PriceBoundsInclusive ==
    ~effectPending =>
        \A i \in DOMAIN filteredProducts :
            /\ filters.minPrice # None => filters.minPrice[1] <= filteredProducts[i].price
            /\ filters.maxPrice # None => filteredProducts[i].price <= filters.maxPrice[1]

\* p is an element of the sequence s
InSeq(p, s) == \E i \in DOMAIN s : s[i] = p

\* C11: the criteria are conjunctive: the view under the criteria together is
\* the base list, in its order, restricted to the products that are in the
\* view of every single criterion applied alone; with no criterion set the
\* view is the whole base list; the filter effect leaves exactly that view.
C11_Conjunctive ==
    LET byCategory == ByCategory(products, filters)
        byMinPrice == ByMinPrice(products, filters)
        byMaxPrice == ByMaxPrice(products, filters)
        byMinRating == ByMinRating(products, filters)
        bySearch == BySearch(products, filters)
        together ==
          SelectSeq(products, LAMBDA p :
             /\ InSeq(p, byCategory)
             /\ InSeq(p, byMinPrice)
             /\ InSeq(p, byMaxPrice)
             /\ InSeq(p, byMinRating)
             /\ InSeq(p, bySearch))
    IN /\ FilterResult(products, filters) = together
       /\ FilterResult(products, NoFilters) = products
       /\ ~effectPending => filteredProducts = together

C11_Witness ==
    /\ ~effectPending
    /\ filters.category # None
    /\ filters.minRating # None
    /\ filteredProducts # <<>>
    /\ Len(filteredProducts) < Len(ByCategory(products, filters))
    /\ Len(filteredProducts) < Len(ByMinRating(products, filters))

\* The lower-cased search text occurs in the lower-cased name or description.
Matches(p, search) ==
    \/ Includes(ToLowerCase(Chars[p.name]), ToLowerCase(search))
    \/ Includes(ToLowerCase(Chars[p.description]), ToLowerCase(search))

\* C12: a product passes the search criterion iff the lower-cased search text
\* occurs in its lower-cased name or description; when the text matches no
\* product of the list the view the effect leaves is empty, whatever the
\* category, price and rating criteria are.
C12_SearchCaseInsensitive ==
    LET bySearch == BySearch(products, filters)
        matching == {i \in DOMAIN products : Matches(products[i], filters.search)}
    IN /\ \A i \in DOMAIN products :
             InSeq(products[i], bySearch) <=> i \in matching
       /\ (~effectPending /\ matching = {}) => filteredProducts = <<>>

C12_Witness ==
    /\ ~effectPending
    /\ filters.search = <<"P", "R", "O">>
    /\ filteredProducts # <<>>
    /\ Len(filteredProducts) < Len(products)
    /\ \E i \in DOMAIN filteredProducts :
          ~Includes(Chars[filteredProducts[i].name], filters.search)

\* C13: with a non-null category exactly the products of that category pass
\* the category criterion, and with a non-null minRating exactly the products
\* with rating >= minRating pass the rating criterion, a minRating of 0
\* included; the view the effect leaves holds only such products.
C13_CategoryAndRating ==
    /\ \A i \in DOMAIN products :
          /\ filters.category # None =>
                (InSeq(products[i], ByCategory(products, filters))
                    <=> products[i].category = filters.category[1])
          /\ filters.minRating # None =>
                (InSeq(products[i], ByMinRating(products, filters))
                    <=> products[i].rating >= filters.minRating[1])
    /\ ~effectPending =>
          \A i \in DOMAIN filteredProducts :
             /\ filters.category # None =>
                   filteredProducts[i].category = filters.category[1]
             /\ filters.minRating # None =>
                   filteredProducts[i].rating >= filters.minRating[1]

C13_Witness ==
    /\ ~effectPending
    /\ filters.category # None
    /\ filters.minRating # None
    /\ \E i \in DOMAIN filteredProducts :
          filteredProducts[i].rating = filters.minRating[1]
    /\ Len(filteredProducts) < Len(ByCategory(products, filters))

-----------------------------------------------------------------------------
(* Claims about create, update and delete in the client, checked under     *)
(* PageSpec                                                                *)

\* The id of the call at the head is the id of an entry of the service's array.
HeadInStore == \E i \in DOMAIN store : store[i].id = Head(calls).id

\* C14: a create, update or delete that succeeds after the initial load
\* changes the client's product list by exactly that change: create appends
\* the new product once, update replaces the entries of that id by the
\* returned product, delete removes the entries of that id; every other
\* entry stays as it was.
C14_ListReflectsChange ==
    [][(~isLoading /\ calls # <<>> /\ calls' = Tail(calls)) =>
          LET call == Head(calls)
          IN /\ call.op = "create" =>
                   products' = Append(products, NewMockProduct(call.id, call.data))
             /\ (call.op = "update" /\ HeadInStore) =>
                   \E updated \in {store'[i] : i \in DOMAIN store'} :
                      /\ updated.id = call.id
                      /\ products' = [i \in DOMAIN products |->
                                        IF products[i].id = call.id
                                        THEN updated ELSE products[i]]
             /\ (call.op = "delete" /\ HeadInStore) =>
                   products' = SelectSeq(products, LAMBDA p : p.id # call.id)
      ]_vars

\* C15: when the service rejects an update or a delete (the id is not in its
\* array), the step leaves the product list and the filtered view as they
\* were and raises an error notification; no step that raises an error
\* notification changes them.
C15_RejectionLeavesState ==
    [][/\ (calls # <<>> /\ calls' = Tail(calls) /\ ~HeadInStore
            /\ Head(calls).op \in {"update", "delete"})
          => /\ products' = products
             /\ filteredProducts' = filteredProducts
             /\ toast'.kind = "error"
       /\ toast'.kind = "error"
          => products' = products /\ filteredProducts' = filteredProducts
      ]_vars

C15_Witness ==
    /\ toast.kind = "error"
    /\ products # <<>>
    /\ started = MaxCalls

\* C16: whenever no recomputation is pending, the filtered view is the filter
\* function applied to the current product list and the current criteria,
\* after any sequence of load, create, update, delete and filter changes.
C16_ViewIsFilterOfList ==
    ~effectPending => filteredProducts = FilterResult(products, filters)

C16_Witness ==
    /\ ~effectPending
    /\ started > 0
    /\ filters.search # <<>>
    /\ filteredProducts # <<>>
    /\ Len(filteredProducts) < Len(products)

\* C17: no two products of the service's array share an id, and no two of
\* the client's product list do.
C17_IdsUnique ==
    /\ \A i, j \in DOMAIN store : i # j => store[i].id # store[j].id
    /\ \A i, j \in DOMAIN products : i # j => products[i].id # products[j].id

-----------------------------------------------------------------------------
(* A claim about the update race, checked under Spec *)

\* C20: a PUT whose target is not stored when its findByIdAndUpdate executes
\* responds 404, and a PUT that responds 200 sends a product that is not
\* null.
C20_PutOnAbsentTarget ==
    [][\A r \in Active :
          PutWrite(r) =>
             LET sent == PutWriteSends(r, collection)
             IN /\ FindById(collection, r.id) = Null => resp'.status = 404
                /\ resp'.status = 200 => sent[1].product # Null]_vars

-----------------------------------------------------------------------------
(* Claims about racing writes and about reads, checked under Spec *)

\* C21: each write is atomic.  A step that changes a stored product is the
\* findByIdAndUpdate of one PUT request, and it leaves every mutable field
\* (name, description, price, imageUrl, category, inStock, updatedAt) with
\* the value of that request; so after PUT requests on one product have
\* interleaved, the product is that of the request whose write came last.
C21_WritesAtomic ==
    [][/\ \A q \in collection' :
             LET p == FindById(collection, q.id)
             IN (p # Null /\ q # p) =>
                   \E r \in Active :
                      /\ r.pc = "putWrite"
                      /\ r.id = q.id
                      /\ reqs' = reqs (-) SetToBag({r})
                      /\ q.name = r.body.name
                      /\ q.description = r.body.description
                      /\ q.price = r.body.price
                      /\ q.imageUrl = r.body.imageUrl
                      /\ q.category = r.body.category
                      /\ q.inStock = r.body.inStock
                      /\ q.updatedAt = r.ts
       /\ \A r \in Active :
             (PutWrite(r) /\ Stored(r.id)) =>
                LET q == FindById(collection', r.id)
                IN /\ q # Null
                   /\ q.name = r.body.name
                   /\ q.description = r.body.description
                   /\ q.price = r.body.price
                   /\ q.imageUrl = r.body.imageUrl
                   /\ q.category = r.body.category
                   /\ q.inStock = r.body.inStock
                   /\ q.updatedAt = r.ts]_vars

\* A PUT has written a seeded product while another PUT on the same product,
\* with other field values, is past its ownership check.
C21_Witness ==
    /\ resp.route = "put"
    /\ resp.status = 200
    /\ resp.changed
    /\ \E r \in Active :
          /\ r.pc = "putWrite"
          /\ LET p == FindById(collection, r.id)
             IN /\ p # Null
                /\ p \notin Seeds
                /\ p.id \in {s.id : s \in Seeds}
                /\ p.name # r.body.name

\* The ids that had a document which was removed, or whose document was never
\* saved: generated, not stored, and not of a create that awaits its save.
Gone ==
    {id \in 1..(nextId - 1) :
        /\ ~Stored(id)
        /\ ~\E r \in Active : r.pc = "save" /\ r.doc.id = id}

\* C22: a deleted product stays deleted.  The step of deleteOne leaves the id
\* absent, and an absent id stays absent over every step, the write of a PUT
\* that passed its ownership check before the delete included.
C22_StaysDeleted ==
    [][/\ \A r \in Active :
             DelRemove(r) => ~\E q \in collection' : q.id = r.id
       /\ \A id \in Gone : ~\E q \in collection' : q.id = id]_vars

\* A product has been deleted while a PUT on it is past its ownership check.
C22_Witness ==
    \E r \in Active :
       /\ r.pc = "putWrite"
       /\ r.id \in Gone
       /\ r.id \in {s.id : s \in Seeds}

\* C23: a DELETE that answers "Product deleted successfully" is the one that
\* removed the product: its target was stored when its deleteOne executed, so
\* no product has two successful DELETE requests.
C23_OneDeleteSucceeds ==
    [][\A r \in Active :
          (DelRemove(r) /\ resp'.status = 200) => Stored(r.id)]_vars

\* C24: reads are not restricted to the owner.  For every authenticated
\* caller, list-all answers 200 with every stored product once, get-by-id of
\* a stored id answers 200 with the stored product, whoever created them, and
\* a step of either leaves the collection unchanged.
C24_ReadsUnrestricted ==
    /\ \A r \in Active :
          /\ r.pc = "find" =>
                \A sent \in ListAllSends(r, collection) :
                   LET ps == sent[1].products
                   IN /\ sent[1].status = 200
                      /\ {ps[i] : i \in 1..Len(ps)} = collection
                      /\ Len(ps) = Cardinality(collection)
          /\ (r.pc = "findById" /\ Stored(r.id)) =>
                LET sent == GetByIdSends(r, collection)
                IN /\ Len(sent) = 1
                   /\ sent[1].status = 200
                   /\ sent[1].product \in collection
                   /\ sent[1].product.id = r.id
    /\ resp.route \in {"list", "get"} => ~resp.changed

\* A list-all has answered 200 over products of two creators, and a
\* get-by-id of a product another user created is in flight.
C24_Witness ==
    /\ resp.route = "list"
    /\ resp.status = 200
    /\ \E p, q \in collection : p.createdBy # q.createdBy
    /\ \E r \in Active :
          /\ r.pc = "findById"
          /\ r.user \in Users
          /\ Stored(r.id)
          /\ FindById(collection, r.id).createdBy # r.user

-----------------------------------------------------------------------------
(* Claims about the client's list and the service's store, checked under   *)
(* PageSpec                                                                *)

\* How many times product p occurs in a list
Count(array, p) == Cardinality({i \in DOMAIN array : array[i] = p})

\* C25: once the page has loaded and every create, update and delete that was
\* started has run to completion, the page's product list and the service's
\* store hold the same products, each the same number of times.
C25_ListEqualsStore ==
    (~isLoading /\ calls = <<>>) =>
       /\ Len(products) = Len(store)
       /\ \A i \in DOMAIN store : Count(products, store[i]) = Count(store, store[i])

\* C26: in the product service, updateProduct and deleteProduct of an id the
\* store does not hold reject with "Product not found" and leave the store
\* as it was; an updateProduct that resolves keeps the length of the store,
\* the record's position, id and createdAt and every other record; a
\* deleteProduct that resolves removes the record at one position and keeps
\* all others, in order.
C26_ServiceUpdateDelete ==
    [][/\ updateProductDone =>
             LET id == Head(calls).id
                 index == findIndex(store, id)
                 call == updateProduct(store, id, Head(calls).data)
             IN IF index = 0
                THEN /\ call.rejected = Some("Product not found")
                     /\ store' = store
                ELSE /\ call.rejected = None
                     /\ Len(store') = Len(store)
                     /\ store'[index] = call.resolved[1]
                     /\ store'[index].id = id
                     /\ store'[index].createdAt = store[index].createdAt
                     /\ \A j \in DOMAIN store : j # index => store'[j] = store[j]
       /\ deleteProductDone =>
             LET id == Head(calls).id
                 index == findIndex(store, id)
                 call == deleteProduct(store, id)
             IN IF index = 0
                THEN /\ call.rejected = Some("Product not found")
                     /\ store' = store
                ELSE /\ call.rejected = None
                     /\ store[index].id = id
                     /\ Len(store') = Len(store) - 1
                     /\ \A j \in 1..(index - 1) : store'[j] = store[j]
                     /\ \A j \in index..Len(store') : store'[j] = store[j + 1]]_vars

\* A deleteProduct has removed a record and an updateProduct of the same id
\* has then been rejected.
C26_Witness ==
    /\ toast = Toast("error", "Failed to update product")
    /\ Len(store) = Len(mockProducts) - 1
    /\ calls = <<>>

-----------------------------------------------------------------------------
(* Claims about sessions: C18 checked under SessionSpec, C19 under AuthSpec *)

\* C18: logout clears client state only.  A logout step leaves the backend
\* as it was, and a request on a protected route that presents a token the
\* backend issued and the client has dropped at logout is accepted for the
\* token's user while the token's expiry lies ahead, and refused with 401
\* "expired" from the expiry on.
C18_LogoutClientSideOnly ==
    [][/\ logout => UNCHANGED backendVars
       /\ \A s \in loggedOut \cap IssuedTokens : \A route \in SessionRoutes :
             Arrive(route, Decode(s), 0, Null) =>
                IF now < Decode(s).exp
                THEN /\ resp' = NoResp
                     /\ BagCardinality(reqs') = BagCardinality(reqs) + 1
                     /\ \E r \in BagToSet(reqs') :
                           r.route = route /\ r.user = Decode(s).user
                ELSE /\ reqs' = reqs
                     /\ resp'.status = 401
                     /\ resp'.auth = "expired"]_vars

\* The client is logged out and a request that presented its dropped token is
\* being served for the token's user.
C18_Witness ==
    /\ loggedOut \cap IssuedTokens # {}
    /\ authUser = None
    /\ token = None
    /\ localStorage = EmptyStorage
    /\ \E r \in Active : r.user = "u1"

\* C19 as stated: every login and every signup returns true and leaves a
\* user with the given email and a token.
C19_AlwaysSucceeds ==
    [][\A email \in Emails, password \in Passwords :
         \A mockToken \in MockTokens, outcome \in SetItemOutcomes :
            (\/ login(email, password, mockToken, outcome)
             \/ signup(email, password, mockToken, outcome)) =>
               /\ returned' = Some(TRUE)
               /\ authUser' # None
               /\ authUser'[1].email = email
               /\ token' # None]_vars

\* C19, amended: whatever the email and the password, a login or signup whose
\* two storage writes are stored returns true and leaves the fabricated user
\* with the given email and the fabricated token, in memory and in storage;
\* one whose storage write throws returns false and leaves user and token as
\* they were.
C19_SucceedsWhenStored ==
    [][\A email \in Emails, password \in Passwords :
         \A mockToken \in MockTokens, outcome \in SetItemOutcomes :
            (\/ login(email, password, mockToken, outcome)
             \/ signup(email, password, mockToken, outcome)) =>
               IF outcome = "stored"
               THEN /\ returned' = Some(TRUE)
                    /\ authUser' = Some([id |-> "1", email |-> email])
                    /\ token' = Some(mockToken)
                    /\ localStorage'.jwt_token = Some(mockToken)
                    /\ JsonParse(localStorage'.user[1]).email = email
                    /\ toast'.kind = "success"
               ELSE /\ returned' = Some(FALSE)
                    /\ UNCHANGED <<authUser, token>>
                    /\ toast'.kind = "error"]_vars

\* A call has returned true and left a user and a token.
C19_Witness ==
    /\ returned = Some(TRUE)
    /\ authUser # None
    /\ token # None
    /\ toast.kind = "success"

-----------------------------------------------------------------------------
(* Claims about the auth context's state and storage, checked under AuthSpec *)

\* C27: once the mount effect has run, user is null exactly when token is
\* null; after a login or a signup the stored jwt_token and user equal the
\* token and the user in memory; after a logout both entries are absent.
C27_AuthConsistent ==
    [][/\ ~authIsLoading' => ((authUser' = None) <=> (token' = None))
       /\ (\E email \in Emails, password \in Passwords :
             \E mockToken \in MockTokens, outcome \in SetItemOutcomes :
                \/ login(email, password, mockToken, outcome)
                \/ signup(email, password, mockToken, outcome))
          => /\ localStorage'.jwt_token = token'
             /\ (localStorage'.user = None) <=> (authUser' = None)
             /\ authUser' # None =>
                   JsonParse(localStorage'.user[1]) = authUser'[1]
       /\ logout => localStorage' = EmptyStorage]_vars

\* What the mount effect reads out of a storage: the stored token and the
\* parsed stored user when both entries are there, null and null otherwise.
Restored(storage) ==
    IF storage.jwt_token # None /\ storage.user # None
    THEN [user |-> Some(JsonParse(storage.user[1])), token |-> storage.jwt_token]
    ELSE [user |-> None, token |-> None]

\* C28: the session survives a remount.  The mount effect ends with isLoading
\* false and with the user and token it reads out of the storage, null and
\* null when an entry is missing; and the storage a remount finds gives back
\* the user and token the provider held: those of the login or signup, null
\* and null after a logout.
C28_RoundTrip ==
    [][/\ mountEffect =>
             /\ ~authIsLoading'
             /\ authUser' = Restored(localStorage).user
             /\ token' = Restored(localStorage).token
             /\ (localStorage.jwt_token = None \/ localStorage.user = None)
                   => (authUser' = None /\ token' = None)
       /\ remount =>
             /\ Restored(localStorage').user = authUser
             /\ Restored(localStorage').token = token]_vars

-----------------------------------------------------------------------------
(* A claim about the product form, checked under FormLiveSpec *)

\* C29: every submission of the product form is followed by isSubmitting
\* false, whether its call resolved or was rejected; the continuation of the
\* submission closes the form when the call resolved and leaves it as it is
\* when the call was rejected, and nothing else but Cancel closes the form.
C29_SubmissionSettles ==
    /\ isSubmitting ~> ~isSubmitting
    /\ [][/\ createProductDone => (~isSubmitting' /\ ~isFormOpen')
          /\ updateProductDone =>
                /\ ~isSubmitting'
                /\ IF updateProduct(store, Head(calls).id,
                                    Head(calls).data).rejected = None
                   THEN ~isFormOpen'
                   ELSE isFormOpen' = isFormOpen
          /\ (isFormOpen /\ ~isFormOpen') =>
                (onCancel \/ createProductDone \/ updateProductDone)]_vars

\* A submission has been rejected: isSubmitting is false again and the form
\* is still open.
C29_Witness ==
    /\ toast = Toast("error", "Failed to update product")
    /\ isFormOpen
    /\ ~isSubmitting
    /\ currentProduct # None

====
